---- MODULE Spec2Model ----
(***************************************************************************)
(* A model of piston's API v2 router (api/src/api/v2.js): request          *)
(* validation (get_job), the batch route POST /execute and the interactive *)
(* WebSocket route /connect.                                               *)
(*                                                                         *)
(* The Job class, the runtime registry and the configuration are used by   *)
(* v2.js but live in other files.  The router's calls on a Job (prime,     *)
(* execute, execute_interactive, cleanup) are recorded per Job in the      *)
(* order the router makes them; what each call answers (resolve or throw)  *)
(* is an input of the model.                                               *)
(***************************************************************************)
EXTENDS Integers, Sequences, FiniteSets, TLC

VARIABLES
    config,      \* config.compile_memory_limit / config.run_memory_limit
    \* ---- POST /execute: one request
    body,        \* req.body
    bpc,         \* position of the route handler
    bjob,        \* calls made on the request's Job, in order
    bnew,        \* what get_job(req.body) settled with
    status,      \* res.status(...) of the response, 0 before it is sent
    outcome,     \* what decided the response: none, validation, engine, success
    \* ---- /connect: one session
    job,         \* `let job`: 0 is null, else an index into jobs
    jobs,        \* every Job constructed by get_job for the session
    inits,       \* init handlers suspended at an await (or finished)
    last,        \* the last synchronous run of the message handler
    nmsg,        \* number of client messages dispatched so far
    ws,          \* ws.readyState
    closeCode,   \* code of the ws.close call that closed the session, 0 if none
    closePc,     \* position of the close handler
    timer,       \* the initialization timer
    sent,        \* ws.send calls, in order
    \* ---- packages/mono/6.12.0/compile: one run of the script
    sh           \* the shell's state

bvars == <<body, bpc, bjob, bnew, status, outcome>>
svars == <<job, jobs, inits, last, nmsg, ws, closeCode, closePc, timer, sent>>
vars == <<config, body, bpc, bjob, bnew, status, outcome,
          job, jobs, inits, last, nmsg, ws, closeCode, closePc, timer, sent, sh>>

----------------------------------------------------------------------------
(* Bounds *)

\* client messages dispatched to one session
MaxMsgs == 2
\* stdout/stderr chunks a Job publishes in one session
MaxData == 1

----------------------------------------------------------------------------
(* JavaScript values, as far as get_job looks at them *)

Undef == [t |-> "undefined"]
Str(s) == [t |-> "string", s |-> s]
Num(n) == [t |-> "number", n |-> n]
Arr(a) == [t |-> "array", a |-> a]

\* ToBoolean: undefined, "" and 0 are falsy
Truthy(v) ==
    CASE v.t = "undefined" -> FALSE
      [] v.t = "string" -> v.s # ""
      [] v.t = "number" -> v.n # 0
      [] OTHER -> TRUE

----------------------------------------------------------------------------
(* The runtime registry (runtime.js) *)

Runtimes ==
    { [language |-> "mono", version |-> [raw |-> "6.10.0", ord |-> 1],
       aliases |-> {"csharp", "basic"}],
      [language |-> "mono", version |-> [raw |-> "6.12.0", ord |-> 2],
       aliases |-> {"csharp", "basic"}] }

NoRuntime == [language |-> "", version |-> [raw |-> "", ord |-> 0], aliases |-> {}]

\* a version spec is an exact version or the range "*"
Satisfies(rt, version) == version = "*" \/ rt.version.raw = version

get_latest_runtime_matching_language_version(lang, version) ==
    LET match == { rt \in Runtimes :
                     /\ (rt.language = lang \/ lang \in rt.aliases)
                     /\ Satisfies(rt, version) }
    IN  IF match = {} THEN NoRuntime
        ELSE CHOOSE rt \in match : \A o \in match : o.version.ord <= rt.version.ord

----------------------------------------------------------------------------
(* get_job *)

Reject(text) == [ok |-> FALSE, message |-> text]

BadFiles(files) ==
    { i \in 1..Len(files) : files[i].content.t # "string" }

\* (a variant of LimitCheck without the `limit < 0` test)
LimitCheck_NoNegative(limit, ceiling, name) ==
    IF ~Truthy(limit) THEN ""
    ELSE IF limit.t # "number" THEN "must be a number"
    ELSE IF ceiling >= 0 /\ limit.n > ceiling
         THEN "cannot exceed the configured limit"
    ELSE ""

\* one of the two memory-limit checks: "" if the limit passes
LimitCheck(limit, ceiling, name) ==
    IF ~Truthy(limit) THEN ""
    ELSE IF limit.t # "number" THEN "must be a number"
    ELSE IF ceiling >= 0 /\ (limit.n > ceiling \/ limit.n < 0)
         THEN "cannot exceed the configured limit"
    ELSE ""

NewJob(b, cfg, rt) ==
    [ runtime |-> rt,
      alias |-> b.language.s,
      files |-> b.files.a,
      timeouts |-> [ run |-> IF Truthy(b.run_timeout) THEN b.run_timeout.n ELSE 3000,
                     compile |-> IF Truthy(b.compile_timeout)
                                 THEN b.compile_timeout.n ELSE 10000 ],
      memory_limits |->
        [ run |-> IF Truthy(b.run_memory_limit)
                  THEN b.run_memory_limit.n ELSE cfg.run_memory_limit,
          compile |-> IF Truthy(b.compile_memory_limit)
                      THEN b.compile_memory_limit.n ELSE cfg.compile_memory_limit ] ]

get_job(b, cfg) ==
    IF ~Truthy(b.language) \/ b.language.t # "string"
    THEN Reject(<<"language is required as a string">>)
    ELSE IF ~Truthy(b.version) \/ b.version.t # "string"
    THEN Reject(<<"version is required as a string">>)
    ELSE IF ~Truthy(b.files) \/ b.files.t # "array"
    THEN Reject(<<"files is required as an array">>)
    ELSE IF BadFiles(b.files.a) # {}
    THEN Reject(<<"files[i].content is required as a string",
                  CHOOSE i \in BadFiles(b.files.a) :
                      \A k \in BadFiles(b.files.a) : i <= k>>)
    ELSE IF LimitCheck(b.compile_memory_limit, cfg.compile_memory_limit, "compile") # ""
    THEN Reject(<<"compile_memory_limit",
                  LimitCheck(b.compile_memory_limit, cfg.compile_memory_limit, "compile")>>)
    ELSE IF LimitCheck(b.run_memory_limit, cfg.run_memory_limit, "run") # ""
    THEN Reject(<<"run_memory_limit",
                  LimitCheck(b.run_memory_limit, cfg.run_memory_limit, "run")>>)
    ELSE LET rt == get_latest_runtime_matching_language_version(b.language.s, b.version.s)
         IN  IF rt = NoRuntime
             THEN Reject(<<"runtime is unknown", b.language.s, b.version.s>>)
             ELSE [ok |-> TRUE, job |-> NewJob(b, cfg, rt)]

----------------------------------------------------------------------------
(* Request bodies *)

Languages == {Undef, Str(""), Num(1), Str("csharp"), Str("mono"), Str("nolang")}
Versions == {Undef, Num(6), Str("6.12.0"), Str("*"), Str("9.9.9")}
Contents == {Str("code"), Undef}
FileLists ==
    {Undef, Str("files"), Arr(<<>>)}
        \cup { Arr(<<[content |-> c]>>) : c \in Contents }
        \cup { Arr(<<[content |-> Str("code")], [content |-> c]>>) : c \in Contents }
Limits == {Undef, Num(0), Str(""), Str("1"), Num(-1), Num(1), Num(3)}
Timeouts == {Undef, Num(500)}
Ceilings == {-1, 0, 2}

Bodies ==
    [ language : Languages, version : Versions, files : FileLists,
      compile_memory_limit : Limits, run_memory_limit : Limits,
      run_timeout : Timeouts, compile_timeout : Timeouts ]

Configs == [compile_memory_limit : Ceilings, run_memory_limit : Ceilings]

\* a body get_job accepts under every configuration, and one it rejects
GoodBody ==
    [ language |-> Str("csharp"), version |-> Str("*"),
      files |-> Arr(<<[content |-> Str("code")]>>),
      compile_memory_limit |-> Undef, run_memory_limit |-> Undef,
      run_timeout |-> Undef, compile_timeout |-> Undef ]
BadBody == [GoodBody EXCEPT !.language = Str("nolang")]

----------------------------------------------------------------------------
(* POST /execute *)

\* get_job not yet called
NoResult == [ok |-> FALSE, message |-> <<>>]

\* the compile script not started
ShIdle == [pc |-> "idle"]

\* the state of a session right after router.ws('/connect') has run
NoMsg == [type |-> "none"]
NoLast == [msg |-> NoMsg, jobnull |-> TRUE, open |-> TRUE, close |-> 0,
           emitted |-> <<>>, started |-> FALSE, heard |-> FALSE]
Armed == [state |-> "armed", close |-> 0, primed |-> FALSE, ninit |-> 0]

SessionIdle ==
    /\ job = 0 /\ jobs = <<>> /\ inits = <<>> /\ last = NoLast /\ nmsg = 0
    /\ ws = "OPEN" /\ closeCode = 0 /\ closePc = "idle" /\ timer = Armed
    /\ sent = <<>>

\* the catch block: res.status(400).json(error)
BatchCatch(kind) ==
    /\ status' = 400
    /\ outcome' = kind
    /\ bpc' = "responded"

\* const job = await get_job(req.body); await job.prime()
BatchGetJob ==
    /\ bpc = "start"
    /\ IF get_job(body, config).ok
       THEN /\ bjob' = <<"prime">>
            /\ bpc' = "prime"
            /\ UNCHANGED <<status, outcome>>
       ELSE /\ BatchCatch("validation")
            /\ UNCHANGED bjob
    /\ bnew' = get_job(body, config)
    /\ UNCHANGED <<config, body, svars, sh>>

\* prime() settles; const result = await job.execute()
BatchPrimeDone ==
    /\ bpc = "prime"
    /\ \E ok \in BOOLEAN :
         IF ok
         THEN /\ bjob' = Append(bjob, "execute")
              /\ bpc' = "execute"
              /\ UNCHANGED <<status, outcome>>
         ELSE /\ BatchCatch("engine")
              /\ UNCHANGED bjob
    /\ UNCHANGED <<config, body, bnew, svars, sh>>

\* execute() settles; await job.cleanup()
BatchExecuteDone ==
    /\ bpc = "execute"
    /\ \E ok \in BOOLEAN :
         IF ok
         THEN /\ bjob' = Append(bjob, "cleanup")
              /\ bpc' = "cleanup"
              /\ UNCHANGED <<status, outcome>>
         ELSE /\ BatchCatch("engine")
              /\ UNCHANGED bjob
    /\ UNCHANGED <<config, body, bnew, svars, sh>>

\* cleanup() settles; return res.status(200).send(result)
BatchCleanupDone ==
    /\ bpc = "cleanup"
    /\ \E ok \in BOOLEAN :
         IF ok
         THEN /\ status' = 200
              /\ outcome' = "success"
              /\ bpc' = "responded"
         ELSE BatchCatch("engine")
    /\ UNCHANGED <<config, body, bjob, bnew, svars, sh>>

BatchInit ==
    /\ config \in Configs
    /\ body \in Bodies
    /\ bpc = "start" /\ bjob = <<>> /\ bnew = NoResult /\ status = 0 /\ outcome = "none"
    /\ SessionIdle
    /\ sh = ShIdle

BatchNext ==
    \/ BatchGetJob
    \/ BatchPrimeDone
    \/ BatchExecuteDone
    \/ BatchCleanupDone

SpecBatch == BatchInit /\ [][BatchNext]_vars

Called(ops, op) == \E i \in 1..Len(ops) : ops[i] = op

\* C1 (as claimed): in the batch route every request whose job.prime() was
\* invoked has job.cleanup() invoked before the response is sent, also when
\* prime() or execute() throws.
C1_CleanupBeforeResponse ==
    (bpc = "responded" /\ Called(bjob, "prime")) => Called(bjob, "cleanup")

\* C5 (as claimed): the batch route answers a validation error with 4xx, an
\* engine error (prime, execute or cleanup throws) with 5xx and success with 2xx.
C5_StatusByOutcome ==
    bpc = "responded" =>
        /\ outcome = "validation" => status \in 400..499
        /\ outcome = "engine" => status \in 500..599
        /\ outcome = "success" => status \in 200..299

----------------------------------------------------------------------------
(* /connect *)

SIGNALS ==
    { "SIGABRT", "SIGALRM", "SIGBUS", "SIGCHLD", "SIGCLD", "SIGCONT", "SIGEMT",
      "SIGFPE", "SIGHUP", "SIGILL", "SIGINFO", "SIGINT", "SIGIO", "SIGIOT",
      "SIGKILL", "SIGLOST", "SIGPIPE", "SIGPOLL", "SIGPROF", "SIGPWR", "SIGQUIT",
      "SIGSEGV", "SIGSTKFLT", "SIGSTOP", "SIGTSTP", "SIGSYS", "SIGTERM", "SIGTRAP",
      "SIGTTIN", "SIGTTOU", "SIGUNUSED", "SIGURG", "SIGUSR1", "SIGUSR2",
      "SIGVTALRM", "SIGXCPU", "SIGXFSZ", "SIGWINCH" }

\* bodies of the init messages a client sends
InitBodies == {GoodBody, BadBody}

\* client messages: "garbage" is a frame JSON.parse throws on, "other" a
\* message whose type matches no case of the switch
Messages ==
    { [type |-> "init", body |-> b] : b \in InitBodies }
        \cup { [type |-> "data", stream |-> st] : st \in {"stdin", "stdout"} }
        \cup { [type |-> "signal", signal |-> sg] : sg \in {"SIGKILL", "SIGWINCH", "SIGFOO"} }
        \cup { [type |-> "garbage"], [type |-> "other"] }

\* what one synchronous run of the message handler does besides get_job
Effect(emitted, close, start, error) ==
    [emitted |-> emitted, close |-> close, start |-> start, error |-> error]

\* (a variant of HandleInit without the job === null test)
HandleInit_NoGuard(msg, j) == Effect(<<>>, 0, TRUE, FALSE)

\* case "init": if(job === null){ ... }else{ ws.close(4000) }
HandleInit(msg, j) ==
    IF j = 0 THEN Effect(<<>>, 0, TRUE, FALSE)
    ELSE Effect(<<>>, 4000, FALSE, FALSE)

\* (a variant of HandleData without the job !== null test)
HandleData_NoJobCheck(msg, j) ==
    IF msg.stream = "stdin"
    THEN Effect(<<[topic |-> "stdin"]>>, 0, FALSE, FALSE)
    ELSE Effect(<<>>, 4004, FALSE, FALSE)

\* (a variant of HandleData without the msg.stream === "stdin" test)
HandleData_AnyStream(msg, j) ==
    IF j # 0
    THEN Effect(<<[topic |-> "stdin"]>>, 0, FALSE, FALSE)
    ELSE Effect(<<>>, 4003, FALSE, FALSE)

\* case "data"
HandleData(msg, j) ==
    IF j # 0
    THEN IF msg.stream = "stdin"
         THEN Effect(<<[topic |-> "stdin"]>>, 0, FALSE, FALSE)
         ELSE Effect(<<>>, 4004, FALSE, FALSE)
    ELSE Effect(<<>>, 4003, FALSE, FALSE)

\* (a variant of HandleSignal without the SIGNALS.includes test)
HandleSignal_NoAllowList(msg, j) ==
    IF j # 0
    THEN Effect(<<[topic |-> "signal", signal |-> msg.signal]>>, 0, FALSE, FALSE)
    ELSE Effect(<<>>, 4003, FALSE, FALSE)

\* case "signal"
HandleSignal(msg, j) ==
    IF j # 0
    THEN IF msg.signal \in SIGNALS
         THEN Effect(<<[topic |-> "signal", signal |-> msg.signal]>>, 0, FALSE, FALSE)
         ELSE Effect(<<>>, 4005, FALSE, FALSE)
    ELSE Effect(<<>>, 4003, FALSE, FALSE)

\* try { JSON.parse; switch(msg.type) } catch { ws.send(error); ws.close(4002) }
Handle(msg, j) ==
    CASE msg.type = "garbage" -> Effect(<<>>, 4002, FALSE, TRUE)
      [] msg.type = "init" -> HandleInit(msg, j)
      [] msg.type = "data" -> HandleData(msg, j)
      [] msg.type = "signal" -> HandleSignal(msg, j)
      [] OTHER -> Effect(<<>>, 0, FALSE, FALSE)

\* ws.send(JSON.stringify({type, ...})): recorded with the readyState it was
\* called in (ws 7 drops a message sent on a socket that is not open)
Send(log, type, info, state) ==
    Append(log, [type |-> type, info |-> info, ws |-> state])

\* ws.close(code): starts the closing handshake of an open socket and is a
\* no-op on a closing or closed one
WsClose(code) ==
    /\ ws' = IF ws = "OPEN" THEN "CLOSING" ELSE ws
    /\ closeCode' = IF ws = "OPEN" THEN code ELSE closeCode

\* a handler resumed from `await get_job(msg)` runs as a microtask, before
\* any timer, socket event or Job completion
NoMicrotask == \A i \in 1..Len(inits) : inits[i].pc # "get_job"

\* (a variant of Catch that notifies the error and leaves the socket open)
Catch_NoClose(i, log, message) ==
    /\ sent' = Send(log, "error", message, ws)
    /\ UNCHANGED <<ws, closeCode>>
    /\ inits' = [inits EXCEPT ![i].pc = "done"]

\* the catch block of an init handler
Catch(i, log, message) ==
    /\ sent' = Send(log, "error", message, ws)
    /\ WsClose(4002)
    /\ inits' = [inits EXCEPT ![i].pc = "done"]

\* the event bus has been handed to a Job: only execute_interactive(eventBus)
\* passes it, so before that call no Job can be subscribed to it
BusGiven == \E j \in 1..Len(jobs) : Called(jobs[j].ops, "execute_interactive")

\* ws.on("message"): the handler up to its first await.  The socket keeps
\* delivering frames until the closing handshake is over, and frames that
\* arrive in one chunk are dispatched back to back.
Message(m) ==
    /\ ws # "CLOSED"
    /\ nmsg < MaxMsgs
    /\ nmsg' = nmsg + 1
    /\ LET e == Handle(m, job)
           r == get_job(m.body, config)
       IN  /\ last' = [msg |-> m, jobnull |-> job = 0, open |-> ws = "OPEN",
                       close |-> e.close, emitted |-> e.emitted, started |-> e.start,
                       heard |-> BusGiven]
           /\ IF e.start
              THEN /\ jobs' = IF r.ok
                              THEN Append(jobs, [job |-> r.job, ops |-> <<>>, events |-> <<>>])
                              ELSE jobs
                   /\ inits' = Append(inits,
                         [ pc |-> "get_job",
                           atnull |-> job = 0,
                           myjob |-> IF r.ok THEN Len(jobs) + 1 ELSE 0,
                           execjob |-> 0,
                           open |-> FALSE,
                           message |-> IF r.ok THEN <<>> ELSE r.message ])
              ELSE UNCHANGED <<jobs, inits>>
           /\ sent' = IF e.error THEN Send(sent, "error", <<"JSON.parse">>, ws) ELSE sent
           /\ IF e.close = 0 THEN UNCHANGED <<ws, closeCode>> ELSE WsClose(e.close)
    /\ UNCHANGED <<config, bvars, sh, job, closePc, timer>>

FirstPending ==
    CHOOSE i \in 1..Len(inits) :
        inits[i].pc = "get_job" /\ \A k \in 1..(i - 1) : inits[k].pc # "get_job"

\* job = await get_job(msg) settles; await job.prime()
ResumeGetJob ==
    /\ ~NoMicrotask
    /\ LET i == FirstPending
           h == inits[i]
       IN  IF h.myjob # 0
           THEN /\ job' = h.myjob
                /\ jobs' = [jobs EXCEPT ![h.myjob].ops = Append(@, "prime")]
                /\ inits' = [inits EXCEPT ![i].pc = "prime"]
                /\ UNCHANGED <<sent, ws, closeCode>>
           ELSE /\ Catch(i, sent, h.message)
                /\ UNCHANGED <<job, jobs>>
    /\ UNCHANGED <<config, bvars, sh, last, nmsg, closePc, timer>>

\* (a variant of PrimeDone that does not await execute_interactive before
\* ws.close(4999))
PrimeDone_NoAwait(i) ==
    /\ NoMicrotask
    /\ inits[i].pc = "prime"
    /\ LET rt == jobs[job].job.runtime
       IN  /\ sent' = Send(sent, "runtime", <<rt.language, rt.version.raw>>, ws)
           /\ jobs' = [jobs EXCEPT ![job].ops = Append(@, "execute_interactive")]
           /\ inits' = [inits EXCEPT ![i].pc = "exec", ![i].execjob = job]
           /\ WsClose(4999)
    /\ UNCHANGED <<config, bvars, sh, job, last, nmsg, closePc, timer>>

\* prime() settles; ws.send(runtime); await job.execute_interactive(eventBus).
\* `job` is the session's variable, read again after the await.
PrimeDone(i) ==
    /\ NoMicrotask
    /\ inits[i].pc = "prime"
    /\ \E ok \in BOOLEAN, sendThrows \in BOOLEAN :
         /\ sendThrows => (ok /\ ws # "OPEN")
         /\ LET rt == jobs[job].job.runtime
                log == Send(sent, "runtime", <<rt.language, rt.version.raw>>, ws)
            IN  IF ok /\ ~sendThrows
                THEN /\ sent' = log
                     /\ jobs' = [jobs EXCEPT ![job].ops = Append(@, "execute_interactive")]
                     /\ inits' = [inits EXCEPT ![i].pc = "exec", ![i].execjob = job]
                     /\ UNCHANGED <<ws, closeCode>>
                ELSE IF ok
                THEN /\ Catch(i, log, <<"WebSocket is not open">>)
                     /\ UNCHANGED jobs
                ELSE /\ Catch(i, sent, <<"prime">>)
                     /\ UNCHANGED jobs
    /\ UNCHANGED <<config, bvars, sh, job, last, nmsg, closePc, timer>>

DataCount(ev) == Cardinality({ k \in 1..Len(ev) : ev[k] = "data" })

\* the events a Job publishes in a phase: stage, then output, then exit
NextEvents(ev) ==
    IF ev = <<>> THEN {"stage"}
    ELSE IF ev[Len(ev)] = "exit" THEN {}
    ELSE {"exit"} \cup (IF DataCount(ev) < MaxData THEN {"data"} ELSE {})

\* the Job publishes stage / stdout / stderr / exit on the bus it was given by
\* execute_interactive, and the session's listener forwards it with ws.send
JobEmit(i) ==
    /\ NoMicrotask
    /\ inits[i].pc = "exec"
    /\ LET j == inits[i].execjob
       IN  /\ ~Called(jobs[j].ops, "cleanup")
           /\ \E e \in NextEvents(jobs[j].events) :
                /\ jobs' = [jobs EXCEPT ![j].events = Append(@, e)]
                /\ sent' = Send(sent, e, <<>>, ws)
    /\ UNCHANGED <<config, bvars, sh, job, inits, last, nmsg, ws, closeCode, closePc, timer>>

Finished(j) ==
    \/ Called(jobs[j].ops, "cleanup")
    \/ (jobs[j].events # <<>> /\ jobs[j].events[Len(jobs[j].events)] = "exit")

\* execute_interactive() settles; ws.close(4999)
ExecDone(i) ==
    /\ NoMicrotask
    /\ inits[i].pc = "exec"
    /\ \E ok \in BOOLEAN :
         /\ ok => Finished(inits[i].execjob)
         /\ IF ok
            THEN /\ WsClose(4999)
                 /\ inits' = [inits EXCEPT ![i].pc = "returned", ![i].open = (ws = "OPEN")]
                 /\ UNCHANGED sent
            ELSE Catch(i, sent, <<"execute_interactive">>)
    /\ UNCHANGED <<config, bvars, sh, job, jobs, last, nmsg, closePc, timer>>

\* ws.on("close"): the client went away or the closing handshake ended
CloseEvent ==
    /\ NoMicrotask
    /\ ws # "CLOSED"
    /\ ws' = "CLOSED"
    /\ IF job # 0
       THEN /\ jobs' = [jobs EXCEPT ![job].ops = Append(@, "cleanup")]
            /\ closePc' = "cleanup"
       ELSE /\ closePc' = "done"
            /\ UNCHANGED jobs
    /\ UNCHANGED <<config, bvars, sh, job, inits, last, nmsg, closeCode, timer, sent>>

\* cleanup() settles and the close handler returns
CleanupDone ==
    /\ NoMicrotask
    /\ closePc = "cleanup"
    /\ closePc' = "done"
    /\ UNCHANGED <<config, bvars, sh, job, jobs, inits, last, nmsg, ws, closeCode, timer, sent>>

PrimeBegun == \E j \in 1..Len(jobs) : Called(jobs[j].ops, "prime")

\* (a variant of TimerCloses that ignores job)
TimerCloses_Always(j) == TRUE

\* if(job === null)
TimerCloses(j) == j = 0

\* setTimeout(..., 1000): the timer is never cleared, it fires once
Timer ==
    /\ NoMicrotask
    /\ timer.state = "armed"
    /\ IF TimerCloses(job)
       THEN /\ WsClose(4001)
            /\ timer' = [state |-> "fired", close |-> 4001, primed |-> PrimeBegun,
                         ninit |-> Len(inits)]
       ELSE /\ UNCHANGED <<ws, closeCode>>
            /\ timer' = [state |-> "fired", close |-> 0, primed |-> PrimeBegun,
                         ninit |-> Len(inits)]
    /\ UNCHANGED <<config, bvars, sh, job, jobs, inits, last, nmsg, closePc, sent>>

BatchIdle ==
    /\ body = GoodBody /\ bpc = "start" /\ bjob = <<>> /\ bnew = NoResult
    /\ status = 0 /\ outcome = "none"

Init ==
    /\ config = [compile_memory_limit |-> -1, run_memory_limit |-> -1]
    /\ BatchIdle
    /\ SessionIdle
    /\ sh = ShIdle

Next ==
    \/ \E m \in Messages : Message(m)
    \/ ResumeGetJob
    \/ \E i \in 1..Len(inits) : PrimeDone(i)
    \/ \E i \in 1..Len(inits) : JobEmit(i)
    \/ \E i \in 1..Len(inits) : ExecDone(i)
    \/ CloseEvent
    \/ CleanupDone
    \/ Timer

Spec == Init /\ [][Next]_vars

----------------------------------------------------------------------------
(* Properties of /connect *)

Count(ops, op) == Cardinality({ k \in 1..Len(ops) : ops[k] = op })

\* C2 (as claimed): once the close handler has finished, every Job the session
\* constructed and primed has had cleanup() invoked exactly once.
C2_CleanupExactlyOnce ==
    closePc = "done" =>
        \A j \in 1..Len(jobs) :
            Called(jobs[j].ops, "prime") => Count(jobs[j].ops, "cleanup") = 1

\* C3 (as claimed): cleanup is terminal; once cleanup() has been invoked on a
\* Job, no other operation is invoked on that Job.
C3_CleanupTerminal ==
    \A j \in 1..Len(jobs) :
        \A k \in 1..Len(jobs[j].ops) :
            jobs[j].ops[k] = "cleanup" => k = Len(jobs[j].ops)

\* C4 (as claimed): after the socket has closed, ws.send is never called again.
C4_NoSendAfterClose ==
    \A k \in 1..Len(sent) : sent[k].ws # "CLOSED"

\* C6 (as claimed): a signal whose name is not in SIGNALS is never published
\* and the session is closed with 4005; a name in SIGNALS received after
\* initialization is published as exactly one signal event.
C6_AsClaimed ==
    last.msg.type = "signal" =>
        /\ last.msg.signal \notin SIGNALS =>
              (last.emitted = <<>> /\ last.close = 4005)
        /\ (last.msg.signal \in SIGNALS /\ ~last.jobnull) =>
              last.emitted = <<[topic |-> "signal", signal |-> last.msg.signal]>>

\* C6 (amended): a signal whose name is not in SIGNALS is never published; the
\* handler calls ws.close(4005) when the session is initialized and
\* ws.close(4003) when it is not, and that code is the session's close code
\* when the socket was still open.  A name in SIGNALS received after
\* initialization is published as exactly one signal event, without closing.
C6_SignalAllowList ==
    last.msg.type = "signal" =>
        /\ last.msg.signal \notin SIGNALS =>
              /\ last.emitted = <<>>
              /\ last.close = IF last.jobnull THEN 4003 ELSE 4005
              /\ last.open => closeCode = last.close
        /\ (last.msg.signal \in SIGNALS /\ ~last.jobnull) =>
              /\ last.emitted = <<[topic |-> "signal", signal |-> last.msg.signal]>>
              /\ last.close = 0

C6_Witness ==
    /\ last.msg.type = "signal"
    /\ last.msg.signal \notin SIGNALS
    /\ ~last.jobnull
    /\ closeCode = 4005

\* C7: an init message handled while job is set calls ws.close(4000) (the
\* session's close code when the socket was still open), calls neither get_job
\* nor prime(), and leaves job alone: every init handler that went on to
\* get_job was dispatched while job was null.
C7_SecondInitRejected ==
    /\ (last.msg.type = "init" /\ ~last.jobnull) =>
          /\ last.close = 4000
          /\ ~last.started
          /\ last.open => closeCode = 4000
    /\ \A i \in 1..Len(inits) : inits[i].atnull

C7_Witness ==
    /\ last.msg.type = "init"
    /\ ~last.jobnull
    /\ last.open
    /\ closeCode = 4000
    /\ Len(jobs) = 1

\* C8 (as claimed): when the timer fires with no init received and closes the
\* session with 4001, no Job is constructed or primed on the session afterwards.
C8_NoJobAfterTimeout ==
    (timer.close = 4001 /\ timer.ninit = 0) => jobs = <<>>

\* C9: once prime() has begun for a Job of the session, the timer firing calls
\* no ws.close: a session is closed with 4001 only by a timer that fired before
\* any prime() began.
C9_TimerCancelledByPrime ==
    /\ (timer.state = "fired" /\ timer.primed) => timer.close = 0
    /\ closeCode = 4001 => (timer.state = "fired" /\ ~timer.primed)

C9_Witness ==
    /\ timer.state = "fired"
    /\ timer.primed
    /\ ws = "OPEN"

\* C10: a data or signal message handled while job is null calls ws.close(4003)
\* (the session's close code when the socket was still open) and publishes
\* nothing on the event bus.
C10_NotInitialized ==
    (last.msg.type \in {"data", "signal"} /\ last.jobnull) =>
        /\ last.emitted = <<>>
        /\ last.close = 4003
        /\ last.open => closeCode = 4003

C10_Witness ==
    /\ last.msg.type = "data"
    /\ last.msg.stream = "stdin"
    /\ last.jobnull
    /\ closeCode = 4003

\* C11: on an initialized session a data message whose stream is not "stdin"
\* publishes nothing and calls ws.close(4004) (the session's close code when
\* the socket was still open); a stdin event is published only by a data
\* message whose stream is "stdin", once and without closing.
C11_OnlyStdin ==
    /\ (last.msg.type = "data" /\ ~last.jobnull) =>
          IF last.msg.stream = "stdin"
          THEN last.emitted = <<[topic |-> "stdin"]>> /\ last.close = 0
          ELSE /\ last.emitted = <<>>
               /\ last.close = 4004
               /\ last.open => closeCode = 4004
    /\ (\E k \in 1..Len(last.emitted) : last.emitted[k].topic = "stdin") =>
          (last.msg.type = "data" /\ last.msg.stream = "stdin")

C11_Witness ==
    /\ last.msg.type = "data"
    /\ last.msg.stream = "stdout"
    /\ ~last.jobnull
    /\ closeCode = 4004

\* C12 (as claimed): an error raised while handling a message is answered with
\* one error message followed by a close with 4002, and nothing is sent on the
\* session after that error message.
C12_ErrorThenClose ==
    \A k \in 1..Len(sent) :
        sent[k].type = "error" =>
            /\ k = Len(sent)
            /\ sent[k].ws = "OPEN" => closeCode = 4002

\* C12 (amended): a handler that catches an error calls ws.send once, with the
\* error's message, and then ws.close(4002).  When the socket was open at that
\* call the session's close code is 4002 and every later ws.send call of the
\* session is made on a socket that is no longer open; an error caught on a
\* socket that is already closing or closed is notified with a ws.send call on
\* that socket and changes no close code.
C12_ErrorNotified ==
    /\ \A k \in 1..Len(sent) :
          (sent[k].type = "error" /\ sent[k].ws = "OPEN") =>
              /\ closeCode = 4002
              /\ \A n \in (k + 1)..Len(sent) : sent[n].ws # "OPEN"
    /\ Cardinality({ k \in 1..Len(sent) : sent[k].type = "error" }) <= nmsg
    /\ \A i \in 1..Len(inits) :
          (inits[i].pc = "done" /\ inits[i].myjob = 0) =>
              \E k \in 1..Len(sent) :
                  sent[k].type = "error" /\ sent[k].info = inits[i].message

C12_Witness ==
    \E k \in 1..Len(sent) :
        /\ sent[k].type = "error"
        /\ sent[k].ws = "OPEN"
        /\ sent[k].info = <<"runtime is unknown", "nolang", "*">>
        /\ closeCode = 4002
        /\ k < Len(sent)

C18_AtMostOneJob ==
    /\ Len(jobs) <= 1
    /\ Cardinality({ j \in 1..Len(jobs) : Called(jobs[j].ops, "prime") }) <= 1

\* C19 (as claimed): every stdin or signal event the handler publishes (a
\* message accepted while job is set) reaches the Job: it is published when the
\* bus has already been given to the Job.
C19_NoAcceptedMessageLost ==
    last.emitted # <<>> => last.heard

\* C20 (as claimed): the runtime message is sent at most once in a session,
\* before any stage, data or exit message, and reports the canonical language
\* and version of the runtime of a Job of the session.
C20_RuntimeOnceFirst ==
    /\ Cardinality({ k \in 1..Len(sent) : sent[k].type = "runtime" }) <= 1
    /\ \A k \in 1..Len(sent) :
          sent[k].type = "runtime" =>
              /\ \A n \in 1..(k - 1) : sent[n].type \notin {"stage", "data", "exit"}
              /\ \E j \in 1..Len(jobs) :
                    sent[k].info = <<jobs[j].job.runtime.language,
                                     jobs[j].job.runtime.version.raw>>

----------------------------------------------------------------------------
(* packages/mono/6.12.0/compile *)

\* the environment a Job gives its compile and run scripts
Env(j) == [PISTON_LANGUAGE |-> j.alias]

\* init/batch bodies that select the mono runtime by its name or an alias
ScriptBodies ==
    { [GoodBody EXCEPT !.language = Str(l)] : l \in {"csharp", "basic", "mono"} }

\* "$@": the staged files, by name; a name is the list of its parts
ArgLists ==
    { <<>>, <<<<"a">>>>, <<<<"b">>>>, <<<<"a">>, <<"b">>>>, <<<<"b">>, <<"a">>>> }

\* what the compiler does with the sources: what it prints on stdout and the
\* status it exits with
Compilers ==
    { [out |-> "empty", status |-> 0],
      [out |-> "warning CS0168", status |-> 0],
      [out |-> "error CS1002", status |-> 1],
      [out |-> "empty", status |-> 1] }

\* grep -q 'error [A-Z]\+[0-9]\+:'
HasErrorDiagnostic(text) == text = "error CS1002"

Range(seq) == { seq[k] : k \in 1..Len(seq) }

Extension(lang) == IF lang = "csharp" THEN ".cs" ELSE ".vb"
Compiler(lang) == IF lang = "csharp" THEN "csc" ELSE "vbnc"

\* case "${PISTON_LANGUAGE}" in csharp) ... basic) ... *) echo ...; exit 1
ScriptCase ==
    /\ sh.pc = "case"
    /\ IF sh.lang \in {"csharp", "basic"}
       THEN sh' = [sh EXCEPT !.pc = "rename"]
       ELSE sh' = [sh EXCEPT !.pc = "exit",
                             !.stdout = Append(@, "How did you get here?"),
                             !.exit = 1]
    /\ UNCHANGED <<config, bvars, svars>>

\* rename 's/$/\.cs/' "$@"   (or .vb)
ScriptRename ==
    /\ sh.pc = "rename"
    /\ sh' = [sh EXCEPT
                !.pc = "compile",
                !.files = { IF f \in Range(sh.args) THEN Append(f, Extension(sh.lang)) ELSE f :
                            f \in sh.files },
                !.status = 0]
    /\ UNCHANGED <<config, bvars, svars>>

\* csc -out:out *.cs > check.txt   (or vbnc, *.vb)
ScriptCompile ==
    /\ sh.pc = "compile"
    /\ sh' = [sh EXCEPT
                !.pc = "grep",
                !.ran = [cmd |-> Compiler(sh.lang),
                         inputs |-> { f \in sh.files : f[Len(f)] = Extension(sh.lang) }],
                !.check = sh.tool.out,
                !.status = sh.tool.status]
    /\ UNCHANGED <<config, bvars, svars>>

\* (a variant of ScriptCheckErrors that always writes to stdout)
ScriptCheckErrors_Stdout ==
    /\ sh.pc = "grep"
    /\ sh' = [sh EXCEPT !.pc = "rm", !.stdout = Append(@, sh.check), !.status = 0]
    /\ UNCHANGED <<config, bvars, svars>>

\* grep -q ... check.txt && cat check.txt 1>&2 || cat check.txt
\* (cat of the file just written succeeds)
ScriptCheckErrors ==
    /\ sh.pc = "grep"
    /\ IF HasErrorDiagnostic(sh.check)
       THEN sh' = [sh EXCEPT !.pc = "rm", !.stderr = Append(@, sh.check), !.status = 0]
       ELSE sh' = [sh EXCEPT !.pc = "rm", !.stdout = Append(@, sh.check), !.status = 0]
    /\ UNCHANGED <<config, bvars, svars>>

\* rm check.txt; check_errors returns rm's status, the case ends and the script
\* exits with the status of its last command
ScriptRm ==
    /\ sh.pc = "rm"
    /\ sh' = [sh EXCEPT !.pc = "exit", !.check = "absent", !.status = 0, !.exit = 0]
    /\ UNCHANGED <<config, bvars, svars>>

ScriptInit ==
    /\ config = [compile_memory_limit |-> -1, run_memory_limit |-> -1]
    /\ BatchIdle
    /\ SessionIdle
    /\ \E b \in ScriptBodies, a \in ArgLists, c \in Compilers :
         sh = [ pc |-> "case",
                request |-> b.language.s,
                lang |-> Env(get_job(b, config).job).PISTON_LANGUAGE,
                args |-> a,
                files |-> Range(a),
                tool |-> c,
                ran |-> [cmd |-> "none", inputs |-> {}],
                check |-> "absent",
                stdout |-> <<>>,
                stderr |-> <<>>,
                status |-> 0,
                exit |-> -1 ]

ScriptNext ==
    \/ ScriptCase
    \/ ScriptRename
    \/ ScriptCompile
    \/ ScriptCheckErrors
    \/ ScriptRm

SpecCompile == ScriptInit /\ [][ScriptNext]_vars

\* C16 (as claimed): the script exits with a non-zero status whenever the
\* compiler reported an error diagnostic.
C16_FailedCompileExitsNonZero ==
    (sh.pc = "exit" /\ sh.ran.cmd # "none" /\ HasErrorDiagnostic(sh.tool.out)) =>
        sh.exit # 0

\* C17: PISTON_LANGUAGE is the request's language string; csharp appends .cs
\* to every argument file and runs csc on them, basic appends .vb and runs
\* vbnc, every other value runs no compiler and exits with status 1; the
\* compiler's output goes to stderr if it holds an error diagnostic and to
\* stdout otherwise, and check.txt is removed.
C17_BranchByLanguage ==
    /\ sh.pc # "idle" => sh.lang = sh.request
    /\ sh.pc = "exit" =>
          IF sh.lang \in {"csharp", "basic"}
          THEN /\ sh.ran.cmd = (IF sh.lang = "csharp" THEN "csc" ELSE "vbnc")
               /\ sh.files = { Append(a, IF sh.lang = "csharp" THEN ".cs" ELSE ".vb") :
                               a \in Range(sh.args) }
               /\ sh.ran.inputs = sh.files
               /\ IF HasErrorDiagnostic(sh.tool.out)
                  THEN sh.stderr = <<sh.tool.out>> /\ sh.stdout = <<>>
                  ELSE sh.stdout = <<sh.tool.out>> /\ sh.stderr = <<>>
               /\ sh.check = "absent"
          ELSE /\ sh.ran.cmd = "none"
               /\ sh.files = Range(sh.args)
               /\ sh.exit = 1

C17_Witness ==
    /\ sh.pc = "exit"
    /\ sh.lang = "basic"
    /\ Len(sh.args) = 2
    /\ sh.stderr = <<"error CS1002">>

----------------------------------------------------------------------------
(* Properties of get_job *)

NoRuntimeMatches(b) ==
    \A rt \in Runtimes :
        ~ /\ (rt.language = b.language.s \/ b.language.s \in rt.aliases)
          /\ Satisfies(rt, b.version.s)

\* the request bodies C14 lists
InvalidAsClaimed(b) ==
    \/ b.language.t # "string"
    \/ b.version.t # "string"
    \/ b.files.t # "array"
    \/ (b.files.t = "array" /\ \E i \in 1..Len(b.files.a) : b.files.a[i].content.t # "string")
    \/ b.compile_memory_limit.t \notin {"undefined", "number"}
    \/ b.run_memory_limit.t \notin {"undefined", "number"}
    \/ (b.language.t = "string" /\ b.version.t = "string" /\ NoRuntimeMatches(b))

\* C14 (as claimed): for every body in which language or version is missing or
\* not a string, files is missing or not an array, a file's content is not a
\* string, a memory limit is given and is not a number, or no runtime matches,
\* get_job rejects, no Job is constructed and prime() is never called.
C14_FailFast ==
    (InvalidAsClaimed(body) /\ bpc # "start") =>
        /\ ~bnew.ok
        /\ bjob = <<>>
        /\ bpc = "responded" /\ outcome = "validation"

\* C15: when config.P_memory_limit >= 0 the Job get_job constructs has
\* memory_limits.P in [0, config.P_memory_limit], and when the request gives no
\* limit (or 0) the Job's limit is the configured value, for P in {compile, run}.
C15_MemoryCeiling ==
    bnew.ok =>
        /\ config.compile_memory_limit >= 0 =>
              bnew.job.memory_limits.compile \in 0..config.compile_memory_limit
        /\ config.run_memory_limit >= 0 =>
              bnew.job.memory_limits.run \in 0..config.run_memory_limit
        /\ body.compile_memory_limit \in {Undef, Num(0)} =>
              bnew.job.memory_limits.compile = config.compile_memory_limit
        /\ body.run_memory_limit \in {Undef, Num(0)} =>
              bnew.job.memory_limits.run = config.run_memory_limit

C15_Witness ==
    /\ bnew.ok
    /\ config.run_memory_limit = 2
    /\ body.run_memory_limit = Num(1)
    /\ bnew.job.memory_limits.run = 1
    /\ body.compile_memory_limit = Undef
    /\ bnew.job.memory_limits.compile = config.compile_memory_limit

====
